---- MODULE Spec2Model ----
(***************************************************************************)
(* Model of the custom hooks of react-learning-hub (CustomHooks page).     *)
(*                                                                         *)
(* A React state cell is modelled by the value its update queue evaluates  *)
(* to (the committed value with every pending setState applied, in call    *)
(* order) and, separately, by the value the last render returned to the    *)
(* component ("view").  A setter call changes the cell; a render copies    *)
(* the cell into the view and re-creates the memoised callbacks; passive   *)
(* effects run in a step of their own, after the render that scheduled     *)
(* them and before the next render.                                        *)
(***************************************************************************)
EXTENDS Integers, Sequences, FiniteSets, TLC

(***************************************************************************)
(* Bounds                                                                  *)
(***************************************************************************)
MaxFetches == 3
MaxFormCalls == 3
MaxToggleCalls == 6
MaxCounterCalls == 4
MaxAdvCalls == 3
MaxStrLen == 2
MaxLsWrites == 3
MaxLsRenders == 2
MaxTime == 4
MaxPrevRenders == 5
MaxTimeouts == 8
MaxUeInputs == 3
MaxUeTimer == 2
MaxLogs == 2

(***************************************************************************)
(* Value domains                                                           *)
(***************************************************************************)
Null == "null"                 \* JavaScript null
Undefined == "undefined"       \* JavaScript undefined / missing key
Urls == {"u1", "u2"}
NoUrl == "nourl"
Results == {"d1", "d2"}        \* bodies response.json() can resolve to
HttpMessage == "HTTP error! status: 500"
NetworkMessage == "Failed to fetch"
ParseMessage == "Unexpected token < in JSON"
ReqIds == 1..MaxFetches
Fields == {"email", "password"}
FieldValues == {"", "a@b.com"}
ErrorMessages == {"x", ""}

VARIABLES
    apiPhase,          \* "init" | "mounted" | "unmounted": the owning component
    apiUrl,            \* url argument of the last render
    apiEffectPending,  \* the effect of lines 102-104 is scheduled, not yet run
    apiState,          \* [data, loading, error]: the three state cells
    apiView,           \* [data, loading, error] as returned by the last render
    apiReqs,           \* per fetchData call: position, outcome, promise
    apiStarted,        \* number of fetchData calls so far
    apiTriggers        \* first mount + renders with a changed url + refetch() calls

VARIABLES
    formValues,        \* the values cell
    formErrors,        \* the errors cell
    formView,          \* [values, errors, initialValues] of the last render
    formCalls,         \* number of setValue / setError / reset calls so far
    formLastCall,      \* the latest call
    formPrevCall       \* the call before it

VARIABLES
    togPhase,          \* "init" | "mounted"
    togValue,          \* the value cell of useToggle
    togView,           \* value returned by the last render
    togBase,           \* the value after creation or the latest setTrue / setFalse
    togCount,          \* toggle() calls since then
    togCalls           \* number of toggle / setTrue / setFalse calls so far

VARIABLES
    cntPhase,          \* "init" | "mounted"
    cntValue,          \* the count cell of useCounter
    cntView,           \* count returned by the last render
    cntInitial,        \* initialValue argument of the last render
    cntBase,           \* count at the start of the batch, or written by reset
    cntK,              \* increment calls since then
    cntM,              \* decrement calls since then
    cntCalls           \* number of increment / decrement / reset calls so far

VARIABLES
    advState,          \* this.state of AdvancedSetStateDemo
    advPending,        \* this.state with the queued setState calls applied
    advCalls,          \* number of wrongWay / correctWay / reset calls so far
    advLastCall        \* the latest of them

VARIABLES
    lsPhase,           \* "none" | "mounted": an instance of useLocalStorage exists
    lsStore,           \* what localStorage holds under the key
    lsInitial,         \* initialValue argument the instance was created with
    lsValue,           \* the storedValue cell
    lsView,            \* storedValue of the last render (what setValue closes over)
    lsReads,           \* getItem calls made by the instance
    lsRaised,          \* an exception escaped the hook
    lsGetThrew,        \* getItem threw when the instance was created
    lsReadFailed,      \* the read at creation failed (missing, threw, unparsable)
    lsWrites,          \* setValue calls made by the instance
    lsRenders,         \* re-renders of the instance
    lsLastWrite,       \* the latest setValue call: kind, new value, whether stored
    lsExternal,        \* another writer changed the key since that call
    lsFold             \* left fold of the batch's writes over the batch's start value

lsVars == <<lsPhase, lsStore, lsInitial, lsValue, lsView, lsReads, lsRaised,
            lsGetThrew, lsReadFailed, lsWrites, lsRenders, lsLastWrite,
            lsExternal, lsFold>>

VARIABLES
    debPhase,          \* "init" | "mounted" | "unmounted"
    debNow,            \* the clock
    debSource,         \* value argument of the last render
    debDelay,          \* delay argument of the last render
    debValue,          \* the debouncedValue cell
    debView,           \* debouncedValue returned by the last render
    debEffectPending,  \* the effect of lines 143-151 is scheduled, not yet run
    debTimers,         \* pending timeouts: [val, setAt, delay]
    debHandler,        \* the timeout the latest effect run created
    debLastChange,     \* time of the latest change of the value argument
    debPrevChange,     \* time of the change before it
    debFires,          \* number of timeouts that have fired
    debFired           \* the timeout that fired last

debVars == <<debPhase, debNow, debSource, debDelay, debValue, debView,
             debEffectPending, debTimers, debHandler, debLastChange,
             debPrevChange, debFires, debFired>>

VARIABLES
    prevPhase,         \* "init" | "mounted" | "unmounted"
    prevRef,           \* ref.current
    prevArg,         \* value argument of the last render
    prevReturned,      \* what the last render returned
    prevEffectPending, \* the effect of lines 113-115 is scheduled, not yet run
    prevRenders,       \* number of renders so far
    prevBefore         \* value argument of the render before the last one

prevVars == <<prevPhase, prevRef, prevArg, prevReturned, prevEffectPending,
              prevRenders, prevBefore>>

VARIABLES
    wsPhase,           \* "init" | "mounted" | "unmounted"
    wsEnv,             \* window.innerWidth / innerHeight
    wsSize,            \* the windowSize cell
    wsView,            \* windowSize returned by the last render
    wsEffectPending,   \* the effect of lines 63-73 is scheduled, not yet run
    wsListeners,       \* handlers registered on window for 'resize'
    wsHandler,         \* the handleResize of the latest effect run (0: none)
    wsRuns,            \* number of runs of the effect body
    wsNotify,          \* a resize event is queued, not yet dispatched
    wsAdded,           \* handlers passed to addEventListener
    wsRemoved          \* handlers passed to removeEventListener

wsVars == <<wsPhase, wsEnv, wsSize, wsView, wsEffectPending, wsListeners,
            wsHandler, wsRuns, wsNotify, wsAdded, wsRemoved>>

VARIABLES
    tcMounted,         \* a TimerComponent instance is mounted
    tcInstance,        \* number of the latest instance (0: none yet)
    tcCount,           \* this.state.count of the latest instance
    tcTimerId,         \* this.timerId of the latest instance (0: null)
    tcTimeouts,        \* pending timeouts: [id, inst]
    tcNextId,          \* the id the next setTimeout returns
    tcFires,           \* number of timeouts that have fired
    tcLateWrites       \* setState calls on an unmounted instance

tcVars == <<tcMounted, tcInstance, tcCount, tcTimerId, tcTimeouts, tcNextId,
            tcFires, tcLateWrites>>

VARIABLES
    uePhase,             \* "init" | "mounted" | "unmounted"
    ueRunning,           \* the isTimerRunning cell
    ueRunningView,       \* isTimerRunning of the last render
    ueTimer,             \* the timer cell
    ueIntervals,         \* ids of the active intervals
    ueIntervalId,        \* intervalId of the timer effect's latest run (0: undefined)
    ueNextId,            \* the id the next setInterval returns
    ueEffectsPending,    \* the last render's effects are scheduled, not yet run
    ueTimerEffectPending,\* the timer effect is among them
    ueRenderPending,     \* a state write has scheduled a render
    ueLogs,              \* length of logs, counted up to MaxLogs
    ueFetch,             \* the mount fetch: "idle" | "inflight" | "done"
    ueAsync,             \* the 1-second async effect: "idle" | "waiting" | "done"
    ueInputs             \* number of toggleTimer / resetTimer calls so far

ueVars == <<uePhase, ueRunning, ueRunningView, ueTimer, ueIntervals, ueIntervalId,
            ueNextId, ueEffectsPending, ueTimerEffectPending, ueRenderPending,
            ueLogs, ueFetch, ueAsync, ueInputs>>

togVars == <<togPhase, togValue, togView, togBase, togCount, togCalls>>
cntVars == <<cntPhase, cntValue, cntView, cntInitial, cntBase, cntK, cntM, cntCalls>>
advVars == <<advState, advPending, advCalls, advLastCall>>

formVars == <<formValues, formErrors, formView, formCalls, formLastCall, formPrevCall>>

apiVars == <<apiPhase, apiUrl, apiEffectPending, apiState, apiView, apiReqs,
             apiStarted, apiTriggers>>

\* what a step of one hook leaves alone: the state of the other hooks
nonApiVars == <<formVars, togVars, cntVars, advVars, lsVars, debVars, prevVars, wsVars, tcVars, ueVars>>
nonFormVars == <<apiVars, togVars, cntVars, advVars, lsVars, debVars, prevVars, wsVars, tcVars, ueVars>>
nonTogVars == <<apiVars, formVars, cntVars, advVars, lsVars, debVars, prevVars, wsVars, tcVars, ueVars>>
nonCntVars == <<apiVars, formVars, togVars, advVars, lsVars, debVars, prevVars, wsVars, tcVars, ueVars>>
nonAdvVars == <<apiVars, formVars, togVars, cntVars, lsVars, debVars, prevVars, wsVars, tcVars, ueVars>>
nonLsVars == <<apiVars, formVars, togVars, cntVars, advVars, debVars, prevVars, wsVars, tcVars, ueVars>>
nonDebVars == <<apiVars, formVars, togVars, cntVars, advVars, lsVars, prevVars, wsVars, tcVars, ueVars>>
nonPrevVars == <<apiVars, formVars, togVars, cntVars, advVars, lsVars, debVars, wsVars, tcVars, ueVars>>
nonWsVars == <<apiVars, formVars, togVars, cntVars, advVars, lsVars, debVars, prevVars, tcVars, ueVars>>
nonTcVars == <<apiVars, formVars, togVars, cntVars, advVars, lsVars, debVars, prevVars, wsVars, ueVars>>
nonUeVars == <<apiVars, formVars, togVars, cntVars, advVars, lsVars, debVars, prevVars, wsVars, tcVars>>

(***************************************************************************)
(* useApi                                                                  *)
(***************************************************************************)
ApiInitialState == [data |-> Null, loading |-> FALSE, error |-> Null]

NoOut == [kind |-> "none", val |-> Null]
IdleReq == [pc |-> "idle", out |-> NoOut, promise |-> "none"]

ApiSetData(s, v) == [s EXCEPT !.data = v]
ApiSetLoading(s, b) == [s EXCEPT !.loading = b]
ApiSetError(s, e) == [s EXCEPT !.error = e]

\* err instanceof Error ? err.message : 'An error occurred'
ErrMessage(err) == IF err.isError THEN err.message ELSE "An error occurred"

ThrownError(msg) == [isError |-> TRUE, message |-> msg]

\* fetchData up to its first await: setLoading(true); setError(null)
FetchDataBegin_KeepsError(s) == ApiSetLoading(s, TRUE)
FetchDataBegin_ClearsData(s) == ApiSetData(ApiSetError(ApiSetLoading(s, TRUE), Null), Null)
FetchDataBegin(s) == ApiSetError(ApiSetLoading(s, TRUE), Null)

\* setData(result), then the finally block
FetchDataSuccess(s, result) == ApiSetLoading(ApiSetData(s, result), FALSE)

\* the catch block, then the finally block
FetchDataFailure_DropsData(s, err) == ApiSetLoading(ApiSetData(ApiSetError(s, ErrMessage(err)), Null), FALSE)
FetchDataFailure_NoFinally(s, err) == ApiSetError(s, ErrMessage(err))
FetchDataFailure(s, err) == ApiSetLoading(ApiSetError(s, ErrMessage(err)), FALSE)

\* useCallback(..., [url]): fetchData is a new function iff url changed;
\* useEffect(..., [fetchData]) re-runs iff fetchData is a new function
FetchDataChanged_NoMemo(prevUrl, url) == TRUE
FetchDataChanged(prevUrl, url) == prevUrl # url

\* a call of fetchData (the one memoised for url u) up to its first await;
\* what fetch(u) answers is the network's choice, whatever u is
fetchData(u) ==
    /\ apiStarted < MaxFetches
    /\ apiStarted' = apiStarted + 1
    /\ apiReqs' = [apiReqs EXCEPT ![apiStarted + 1] =
                       [pc |-> "fetch", out |-> NoOut, promise |-> "pending"]]
    /\ apiState' = FetchDataBegin(apiState)

\* the continuation of call r ends in the try block
ApiSucceed(r, result) ==
    /\ apiState' = FetchDataSuccess(apiState, result)
    /\ apiReqs' = [apiReqs EXCEPT ![r].pc = "done",
                                  ![r].out = [kind |-> "ok", val |-> result],
                                  ![r].promise = "fulfilled"]

\* the continuation of call r ends in the catch block
ApiFail(r, err) ==
    /\ apiState' = FetchDataFailure(apiState, err)
    /\ apiReqs' = [apiReqs EXCEPT ![r].pc = "done",
                                  ![r].out = [kind |-> "err", val |-> ErrMessage(err)],
                                  ![r].promise = "fulfilled"]

\* first render of the owning component
ApiMount(u) ==
    /\ apiPhase = "init"
    /\ apiPhase' = "mounted"
    /\ apiUrl' = u
    /\ apiView' = apiState
    /\ apiEffectPending' = TRUE
    /\ apiTriggers' = apiTriggers + 1
    /\ UNCHANGED <<apiState, apiReqs, apiStarted>>
    /\ UNCHANGED nonApiVars

\* a later render, with url u (changed or not)
ApiRender(u) ==
    /\ apiPhase = "mounted"
    /\ ~apiEffectPending
    /\ FetchDataChanged(apiUrl, u) => apiStarted < MaxFetches
    /\ apiUrl' = u
    /\ apiView' = apiState
    /\ apiEffectPending' = FetchDataChanged(apiUrl, u)
    /\ apiTriggers' = IF u # apiUrl THEN apiTriggers + 1 ELSE apiTriggers
    /\ UNCHANGED <<apiPhase, apiState, apiReqs, apiStarted>>
    /\ UNCHANGED nonApiVars

\* useEffect(() => { fetchData(); }, [fetchData])
ApiRunEffect ==
    /\ apiPhase = "mounted"
    /\ apiEffectPending
    /\ apiEffectPending' = FALSE
    /\ fetchData(apiUrl)
    /\ UNCHANGED <<apiPhase, apiUrl, apiView, apiTriggers>>
    /\ UNCHANGED nonApiVars

\* the caller invokes the returned refetch
ApiRefetch ==
    /\ apiPhase = "mounted"
    /\ apiStarted + (IF apiEffectPending THEN 1 ELSE 0) < MaxFetches
    /\ fetchData(apiUrl)
    /\ apiTriggers' = apiTriggers + 1
    /\ UNCHANGED <<apiPhase, apiUrl, apiEffectPending, apiView>>
    /\ UNCHANGED nonApiVars

\* await fetch(url) resolves with a response; a non-OK one is thrown at once
ApiFetchResolve(r, ok) ==
    /\ apiReqs[r].pc = "fetch"
    /\ IF ok
         THEN /\ apiReqs' = [apiReqs EXCEPT ![r].pc = "json"]
              /\ UNCHANGED apiState
         ELSE ApiFail(r, ThrownError(HttpMessage))
    /\ UNCHANGED <<apiPhase, apiUrl, apiEffectPending, apiView, apiStarted, apiTriggers>>
    /\ UNCHANGED nonApiVars

\* await fetch(url) rejects
ApiFetchReject(r) ==
    /\ apiReqs[r].pc = "fetch"
    /\ ApiFail(r, ThrownError(NetworkMessage))
    /\ UNCHANGED <<apiPhase, apiUrl, apiEffectPending, apiView, apiStarted, apiTriggers>>
    /\ UNCHANGED nonApiVars

\* await response.json() resolves
ApiJsonResolve(r, result) ==
    /\ apiReqs[r].pc = "json"
    /\ ApiSucceed(r, result)
    /\ UNCHANGED <<apiPhase, apiUrl, apiEffectPending, apiView, apiStarted, apiTriggers>>
    /\ UNCHANGED nonApiVars

\* await response.json() rejects
ApiJsonReject(r) ==
    /\ apiReqs[r].pc = "json"
    /\ ApiFail(r, ThrownError(ParseMessage))
    /\ UNCHANGED <<apiPhase, apiUrl, apiEffectPending, apiView, apiStarted, apiTriggers>>
    /\ UNCHANGED nonApiVars

\* the owning component is removed; the effect registers no cleanup
ApiUnmount ==
    /\ apiPhase = "mounted"
    /\ ~apiEffectPending
    /\ apiPhase' = "unmounted"
    /\ UNCHANGED <<apiUrl, apiEffectPending, apiState, apiView, apiReqs,
                   apiStarted, apiTriggers>>
    /\ UNCHANGED nonApiVars

ApiInit ==
    /\ apiPhase = "init"
    /\ apiUrl = NoUrl
    /\ apiEffectPending = FALSE
    /\ apiState = ApiInitialState
    /\ apiView = ApiInitialState
    /\ apiReqs = [r \in ReqIds |-> IdleReq]
    /\ apiStarted = 0
    /\ apiTriggers = 0

ApiComplete ==
    \/ \E r \in ReqIds, ok \in BOOLEAN : ApiFetchResolve(r, ok)
    \/ \E r \in ReqIds : ApiFetchReject(r)
    \/ \E r \in ReqIds, result \in Results : ApiJsonResolve(r, result)
    \/ \E r \in ReqIds : ApiJsonReject(r)

ApiNext ==
    \/ \E u \in Urls : ApiMount(u)
    \/ \E u \in Urls : ApiRender(u)
    \/ ApiRunEffect
    \/ ApiRefetch
    \/ ApiComplete
    \/ ApiUnmount

(***************************************************************************)
(* useForm                                                                 *)
(***************************************************************************)
\* the mapping the demo creates the form with
FormCreationValues == [f \in Fields |-> ""]
\* mappings a render may pass as initialValues
InitialMappings == {FormCreationValues, [f \in Fields |-> "a@b.com"]}

NoErrors == [f \in Fields |-> Undefined]      \* {}
NoCall == [op |-> "none", field |-> "none", arg |-> ""]

\* JavaScript truthiness of an errors entry
Truthy(e) == e \notin {Undefined, ""}

\* prev => ({ ...prev, [name]: value })
SetValuesUpdater_NoSpread(prev, name, value) ==
    [f \in Fields |-> IF f = name THEN value ELSE Undefined]
SetValuesUpdater(prev, name, value) == [prev EXCEPT ![name] = value]

\* prev => ({ ...prev, [name]: undefined })
ClearErrorUpdater(prev, name) == [prev EXCEPT ![name] = Undefined]

\* prev => ({ ...prev, [name]: error })
SetErrorUpdater(prev, name, error) == [prev EXCEPT ![name] = error]

FormRecordCall(c) ==
    /\ formCalls < MaxFormCalls
    /\ formCalls' = formCalls + 1
    /\ formPrevCall' = formLastCall
    /\ formLastCall' = c

\* setValue as memoised by the last render: it reads that render's errors
FormSetValue(name, value) ==
    /\ FormRecordCall([op |-> "setValue", field |-> name, arg |-> value])
    /\ formValues' = SetValuesUpdater(formValues, name, value)
    /\ formErrors' = IF Truthy(formView.errors[name])
                       THEN ClearErrorUpdater(formErrors, name)
                       ELSE formErrors
    /\ UNCHANGED formView
    /\ UNCHANGED nonFormVars

FormSetError(name, error) ==
    /\ FormRecordCall([op |-> "setError", field |-> name, arg |-> error])
    /\ formErrors' = SetErrorUpdater(formErrors, name, error)
    /\ UNCHANGED <<formValues, formView>>
    /\ UNCHANGED nonFormVars

\* reset as memoised by the last render: it reads that render's initialValues
FormReset ==
    /\ FormRecordCall([op |-> "reset", field |-> "none", arg |-> ""])
    /\ formValues' = formView.initialValues
    /\ formErrors' = NoErrors
    /\ UNCHANGED formView
    /\ UNCHANGED nonFormVars

\* a render of the owning component, which passes initialValues iv
FormRender(iv) ==
    /\ formView' = [values |-> formValues, errors |-> formErrors, initialValues |-> iv]
    /\ UNCHANGED <<formValues, formErrors, formCalls, formLastCall, formPrevCall>>
    /\ UNCHANGED nonFormVars

FormInit ==
    /\ formValues = FormCreationValues
    /\ formErrors = NoErrors
    /\ formView = [values |-> FormCreationValues, errors |-> NoErrors,
                   initialValues |-> FormCreationValues]
    /\ formCalls = 0
    /\ formLastCall = NoCall
    /\ formPrevCall = NoCall

FormNext ==
    \/ \E name \in Fields, value \in FieldValues : FormSetValue(name, value)
    \/ \E name \in Fields, error \in ErrorMessages : FormSetError(name, error)
    \/ FormReset
    \/ \E iv \in InitialMappings : FormRender(iv)

(***************************************************************************)
(* useToggle                                                               *)
(***************************************************************************)
\* prevValue => !prevValue
ToggleUpdater_Stale(prevValue) == ~togView
ToggleUpdater(prevValue) == ~prevValue

TogRecordCall ==
    /\ togPhase = "mounted"
    /\ togCalls < MaxToggleCalls
    /\ togCalls' = togCalls + 1

\* first render: useState(initialValue)
TogMount(initialValue) ==
    /\ togPhase = "init"
    /\ togPhase' = "mounted"
    /\ togValue' = initialValue
    /\ togView' = initialValue
    /\ togBase' = initialValue
    /\ UNCHANGED <<togCount, togCalls>>
    /\ UNCHANGED nonTogVars

\* a later render: useState ignores its argument
TogRender(initialValue) ==
    /\ togPhase = "mounted"
    /\ togView' = togValue
    /\ UNCHANGED <<togPhase, togValue, togBase, togCount, togCalls>>
    /\ UNCHANGED nonTogVars

toggle ==
    /\ TogRecordCall
    /\ togValue' = ToggleUpdater(togValue)
    /\ togCount' = togCount + 1
    /\ UNCHANGED <<togPhase, togView, togBase>>
    /\ UNCHANGED nonTogVars

setTrue ==
    /\ TogRecordCall
    /\ togValue' = TRUE
    /\ togBase' = TRUE
    /\ togCount' = 0
    /\ UNCHANGED <<togPhase, togView>>
    /\ UNCHANGED nonTogVars

setFalse ==
    /\ TogRecordCall
    /\ togValue' = FALSE
    /\ togBase' = FALSE
    /\ togCount' = 0
    /\ UNCHANGED <<togPhase, togView>>
    /\ UNCHANGED nonTogVars

TogInit ==
    /\ togPhase = "init"
    /\ togValue = FALSE
    /\ togView = FALSE
    /\ togBase = FALSE
    /\ togCount = 0
    /\ togCalls = 0

TogNext ==
    \/ \E b \in BOOLEAN : TogMount(b)
    \/ \E b \in BOOLEAN : TogRender(b)
    \/ toggle
    \/ setTrue
    \/ setFalse

(***************************************************************************)
(* useCounter                                                              *)
(***************************************************************************)
\* initialValue arguments: the demo's counter1 and counter2
CounterInitials == {0, 10}

\* prevCount => prevCount + 1
IncrementUpdater_Stale(prevCount) == cntView + 1
IncrementUpdater(prevCount) == prevCount + 1

\* prevCount => prevCount - 1
DecrementUpdater(prevCount) == prevCount - 1

CntRecordCall ==
    /\ cntPhase = "mounted"
    /\ cntCalls < MaxCounterCalls
    /\ cntCalls' = cntCalls + 1

\* first render: useState(initialValue)
CntMount(initialValue) ==
    /\ cntPhase = "init"
    /\ cntPhase' = "mounted"
    /\ cntValue' = initialValue
    /\ cntView' = initialValue
    /\ cntInitial' = initialValue
    /\ cntBase' = initialValue
    /\ UNCHANGED <<cntK, cntM, cntCalls>>
    /\ UNCHANGED nonCntVars

\* a later render ends the batch; reset is re-memoised on [initialValue]
CntRender(initialValue) ==
    /\ cntPhase = "mounted"
    /\ cntView' = cntValue
    /\ cntInitial' = initialValue
    /\ cntBase' = cntValue
    /\ cntK' = 0
    /\ cntM' = 0
    /\ UNCHANGED <<cntPhase, cntValue, cntCalls>>
    /\ UNCHANGED nonCntVars

increment ==
    /\ CntRecordCall
    /\ cntValue' = IncrementUpdater(cntValue)
    /\ cntK' = cntK + 1
    /\ UNCHANGED <<cntPhase, cntView, cntInitial, cntBase, cntM>>
    /\ UNCHANGED nonCntVars

decrement ==
    /\ CntRecordCall
    /\ cntValue' = DecrementUpdater(cntValue)
    /\ cntM' = cntM + 1
    /\ UNCHANGED <<cntPhase, cntView, cntInitial, cntBase, cntK>>
    /\ UNCHANGED nonCntVars

\* setCount(initialValue): a literal write
CntReset ==
    /\ CntRecordCall
    /\ cntValue' = cntInitial
    /\ cntBase' = cntInitial
    /\ cntK' = 0
    /\ cntM' = 0
    /\ UNCHANGED <<cntPhase, cntView, cntInitial>>
    /\ UNCHANGED nonCntVars

CntInit ==
    /\ cntPhase = "init"
    /\ cntValue = 0
    /\ cntView = 0
    /\ cntInitial = 0
    /\ cntBase = 0
    /\ cntK = 0
    /\ cntM = 0
    /\ cntCalls = 0

(***************************************************************************)
(* AdvancedSetStateDemo                                                    *)
(***************************************************************************)
AdvInitialMessage == "Click buttons to see setState behavior"
WrongWayMessage == "Wrong way: Only incremented by 1 due to stale state"
CorrectWayMessage == "Correct way: Incremented by 3 using callback function"
ResetMessage == "Counter reset"

\* prevState => ({ counter: prevState.counter + 1 })
CounterPlusOne(prevState) == [prevState EXCEPT !.counter = prevState.counter + 1]

AdvRecordCall(name) ==
    /\ advCalls < MaxAdvCalls
    /\ advCalls' = advCalls + 1
    /\ advLastCall' = name

\* three setState({ counter: this.state.counter + 1 }), then the message
wrongWay_ReadsQueue ==
    /\ AdvRecordCall("wrongWay")
    /\ advPending' = [CounterPlusOne(CounterPlusOne(CounterPlusOne(advPending)))
                          EXCEPT !.message = WrongWayMessage]
    /\ UNCHANGED advState
    /\ UNCHANGED nonAdvVars
wrongWay ==
    /\ AdvRecordCall("wrongWay")
    /\ advPending' = [counter |-> advState.counter + 1, message |-> WrongWayMessage]
    /\ UNCHANGED advState
    /\ UNCHANGED nonAdvVars

\* three setState(prevState => ...), then the message
correctWay ==
    /\ AdvRecordCall("correctWay")
    /\ advPending' = [CounterPlusOne(CounterPlusOne(CounterPlusOne(advPending)))
                          EXCEPT !.message = CorrectWayMessage]
    /\ UNCHANGED advState
    /\ UNCHANGED nonAdvVars

AdvReset ==
    /\ AdvRecordCall("reset")
    /\ advPending' = [counter |-> 0, message |-> ResetMessage]
    /\ UNCHANGED advState
    /\ UNCHANGED nonAdvVars

\* React processes the queue and re-renders: this.state takes the result
AdvRender ==
    /\ advState' = advPending
    /\ UNCHANGED <<advPending, advCalls, advLastCall>>
    /\ UNCHANGED nonAdvVars

AdvInit ==
    /\ advState = [counter |-> 0, message |-> AdvInitialMessage]
    /\ advPending = [counter |-> 0, message |-> AdvInitialMessage]
    /\ advCalls = 0
    /\ advLastCall = "none"

BatchNext ==
    \/ \E i \in CounterInitials : CntMount(i)
    \/ \E i \in CounterInitials : CntRender(i)
    \/ increment
    \/ decrement
    \/ CntReset
    \/ wrongWay
    \/ correctWay
    \/ AdvReset
    \/ AdvRender

(***************************************************************************)
(* useLocalStorage (one key)                                               *)
(***************************************************************************)
\* JavaScript values: strings of a's, and the falsy 0, false and null
JStr(str) == [t |-> "string", s |-> str]
JZero == [t |-> "number", s |-> "0"]
JFalse == [t |-> "boolean", s |-> "false"]
JNull == [t |-> "null", s |-> "null"]

RECURSIVE Rep(_)
Rep(n) == IF n = 0 THEN "" ELSE Rep(n - 1) \o "a"

JsVals == {JStr(Rep(n)) : n \in 0..MaxStrLen} \cup {JZero, JFalse, JNull}

\* initialValue arguments
LsInitials == {JStr(""), JStr("a")}

\* JSON.stringify
Stringify(v) == IF v.t = "string" THEN "\"" \o v.s \o "\"" ELSE v.s

\* JSON.parse: the value the text denotes, or a SyntaxError
Parse(text) ==
    IF \E v \in JsVals : Stringify(v) = text
      THEN [ok |-> TRUE, value |-> CHOOSE v \in JsVals : Stringify(v) = text]
      ELSE [ok |-> FALSE, value |-> JNull]

\* texts another writer may leave under the key that are not JSON
GarbageTexts == {"", "{oops"}

\* getItem result: null when the key is missing
NoItem == [present |-> FALSE, text |-> ""]
Item(text) == [present |-> TRUE, text |-> text]

\* item ? ... : ... (null and the empty string are falsy)
ItemTruthy(item) == item.present /\ item.text # ""

\* the lazy initialiser of useState, lines 33-41
ReadStored_NoCatch(item, getThrows, initialValue) ==
    IF getThrows \/ (ItemTruthy(item) /\ ~Parse(item.text).ok)
      THEN [value |-> initialValue, raised |-> TRUE]
      ELSE IF ItemTruthy(item)
             THEN [value |-> Parse(item.text).value, raised |-> FALSE]
             ELSE [value |-> initialValue, raised |-> FALSE]
ReadStored_FalsyValue(item, getThrows, initialValue) ==
    IF getThrows \/ ~item.present \/ ~Parse(item.text).ok
      THEN [value |-> initialValue, raised |-> FALSE]
      ELSE IF Parse(item.text).value \in {JStr(""), JZero, JFalse, JNull}
             THEN [value |-> initialValue, raised |-> FALSE]
             ELSE [value |-> Parse(item.text).value, raised |-> FALSE]
ReadStored(item, getThrows, initialValue) ==
    IF getThrows
      THEN [value |-> initialValue, raised |-> FALSE]
      ELSE IF ItemTruthy(item)
             THEN IF Parse(item.text).ok
                    THEN [value |-> Parse(item.text).value, raised |-> FALSE]
                    ELSE [value |-> initialValue, raised |-> FALSE]
             ELSE [value |-> initialValue, raised |-> FALSE]

\* useState(() => ...): the initialiser runs on the first render only
InitializerCalls_Eager(firstRender) == 1
InitializerCalls(firstRender) == IF firstRender THEN 1 ELSE 0

\* JSON.stringify(valueToStore)
PersistedText_Stale(valueToStore) == Stringify(lsView)
PersistedText(valueToStore) == Stringify(valueToStore)

\* the try block of setValue: setStoredValue, then setItem, which may throw
WriteThrough_PersistFirst(cell, item, valueToStore, setThrows) ==
    [cell |-> IF setThrows THEN cell ELSE valueToStore,
     item |-> IF setThrows THEN item ELSE Item(PersistedText(valueToStore)),
     raised |-> FALSE]
WriteThrough(cell, item, valueToStore, setThrows) ==
    [cell |-> valueToStore,
     item |-> IF setThrows THEN item ELSE Item(PersistedText(valueToStore)),
     raised |-> FALSE]

\* the updater the callers pass: val => val + 'a'
AppendA(val) == JStr(val.s \o "a")

\* a setValue call that computed valueToStore
LsWrite(kind, valueToStore, setThrows) ==
    LET w == WriteThrough(lsValue, lsStore, valueToStore, setThrows) IN
    /\ lsPhase = "mounted"
    /\ lsWrites < MaxLsWrites
    /\ lsWrites' = lsWrites + 1
    /\ lsValue' = w.cell
    /\ lsStore' = w.item
    /\ lsRaised' = (lsRaised \/ w.raised)
    /\ lsLastWrite' = [kind |-> kind, v |-> valueToStore, stored |-> ~setThrows]
    /\ lsExternal' = FALSE
    /\ UNCHANGED <<lsPhase, lsInitial, lsView, lsReads, lsGetThrew, lsReadFailed, lsRenders>>
    /\ UNCHANGED nonLsVars

\* first render of a fresh instance
LsCreate(initialValue, getThrows) ==
    LET r == ReadStored(lsStore, getThrows, initialValue) IN
    /\ lsPhase = "none"
    /\ lsPhase' = "mounted"
    /\ lsInitial' = initialValue
    /\ lsValue' = r.value
    /\ lsView' = r.value
    /\ lsFold' = r.value
    /\ lsReads' = InitializerCalls(TRUE)
    /\ lsRaised' = r.raised
    /\ lsGetThrew' = getThrows
    /\ lsReadFailed' = (getThrows \/ ~lsStore.present \/ ~Parse(lsStore.text).ok)
    /\ lsWrites' = 0
    /\ lsRenders' = 0
    /\ UNCHANGED <<lsStore, lsLastWrite, lsExternal>>
    /\ UNCHANGED nonLsVars

\* a later render: the batch is applied, setValue is re-memoised
LsRender ==
    /\ lsPhase = "mounted"
    /\ lsRenders < MaxLsRenders
    /\ lsRenders' = lsRenders + 1
    /\ lsView' = lsValue
    /\ lsFold' = lsValue
    /\ lsReads' = lsReads + InitializerCalls(FALSE)
    /\ UNCHANGED <<lsPhase, lsStore, lsInitial, lsValue, lsRaised, lsGetThrew,
                   lsReadFailed, lsWrites, lsLastWrite, lsExternal>>
    /\ UNCHANGED nonLsVars

\* setValue(v) with a literal
LsSetValue(v, setThrows) ==
    /\ LsWrite("literal", v, setThrows)
    /\ lsFold' = v

\* setValue(val => val + 'a'): the updater is applied to the closure's storedValue
LsSetValueWith(setThrows) ==
    /\ lsView.t = "string"
    /\ Len(lsView.s) < MaxStrLen
    /\ lsFold.t = "string"
    /\ LsWrite("updater", AppendA(lsView), setThrows)
    /\ lsFold' = AppendA(lsFold)

\* the owning component is removed
LsUnmount ==
    /\ lsPhase = "mounted"
    /\ lsPhase' = "none"
    /\ UNCHANGED <<lsStore, lsInitial, lsValue, lsView, lsReads, lsRaised, lsGetThrew,
                   lsReadFailed, lsWrites, lsRenders, lsLastWrite, lsExternal, lsFold>>
    /\ UNCHANGED nonLsVars

\* another writer stores a text under the key, or removes the key
LsExternalWrite(item) ==
    /\ item # lsStore
    /\ lsStore' = item
    /\ lsExternal' = TRUE
    /\ UNCHANGED <<lsPhase, lsInitial, lsValue, lsView, lsReads, lsRaised, lsGetThrew,
                   lsReadFailed, lsWrites, lsRenders, lsLastWrite, lsFold>>
    /\ UNCHANGED nonLsVars

NoWrite == [kind |-> "none", v |-> JNull, stored |-> FALSE]

LsInit ==
    /\ lsPhase = "none"
    /\ lsStore = NoItem
    /\ lsInitial = JStr("")
    /\ lsValue = JStr("")
    /\ lsView = JStr("")
    /\ lsReads = 0
    /\ lsRaised = FALSE
    /\ lsGetThrew = FALSE
    /\ lsReadFailed = FALSE
    /\ lsWrites = 0
    /\ lsRenders = 0
    /\ lsLastWrite = NoWrite
    /\ lsExternal = FALSE
    /\ lsFold = JStr("")

LsNext ==
    \/ \E i \in LsInitials, getThrows \in BOOLEAN : LsCreate(i, getThrows)
    \/ LsRender
    \/ \E v \in JsVals, setThrows \in BOOLEAN : LsSetValue(v, setThrows)
    \/ \E setThrows \in BOOLEAN : LsSetValueWith(setThrows)
    \/ LsUnmount
    \/ \E item \in {NoItem} \cup {Item(g) : g \in GarbageTexts} : LsExternalWrite(item)

(***************************************************************************)
(* useDebounce                                                             *)
(***************************************************************************)
DebValues == {"", "r", "re"}       \* what the user has typed
Delays == {1, 2}                   \* delay arguments, in clock ticks
NoTimer == [val |-> "", setAt |-> 0 - 1, delay |-> 0]

Due(tm) == tm.setAt + tm.delay

\* the cleanup of the previous effect run: clearTimeout(handler)
ClearTimeout_Missing(timers, handler) == timers
ClearTimeout(timers, handler) == timers \ {handler}

\* useEffect(..., [value, delay]) re-runs iff one of them changed
DebDepsChanged_DelayOnly(prevValue, prevDelay, value, delay) ==
    prevDelay # delay
DebDepsChanged(prevValue, prevDelay, value, delay) ==
    prevValue # value \/ prevDelay # delay

\* the clock stops at MaxTime: a render schedules a timeout only if it can
\* come due by then
WithinHorizon(delay) == debNow + delay <= MaxTime

\* first render: useState(value)
DebMount(value, delay) ==
    /\ debPhase = "init"
    /\ WithinHorizon(delay)
    /\ debPhase' = "mounted"
    /\ debSource' = value
    /\ debDelay' = delay
    /\ debValue' = value
    /\ debView' = value
    /\ debEffectPending' = TRUE
    /\ debLastChange' = debNow
    /\ UNCHANGED <<debNow, debTimers, debHandler, debPrevChange, debFires, debFired>>
    /\ UNCHANGED nonDebVars

\* a later render with the arguments value and delay
DebRender(value, delay) ==
    /\ debPhase = "mounted"
    /\ ~debEffectPending
    /\ DebDepsChanged(debSource, debDelay, value, delay) => WithinHorizon(delay)
    /\ debSource' = value
    /\ debDelay' = delay
    /\ debView' = debValue
    /\ debEffectPending' = DebDepsChanged(debSource, debDelay, value, delay)
    /\ debLastChange' = IF value # debSource THEN debNow ELSE debLastChange
    /\ debPrevChange' = IF value # debSource THEN debLastChange ELSE debPrevChange
    /\ UNCHANGED <<debPhase, debNow, debValue, debTimers, debHandler, debFires, debFired>>
    /\ UNCHANGED nonDebVars

\* the effect: the previous run's cleanup, then setTimeout(..., delay)
DebRunEffect_NoCleanup ==
    LET tm == [val |-> debSource, setAt |-> debNow, delay |-> debDelay] IN
    /\ debPhase = "mounted"
    /\ debEffectPending
    /\ debEffectPending' = FALSE
    /\ debTimers' = debTimers \cup {tm}
    /\ debHandler' = tm
    /\ UNCHANGED <<debPhase, debNow, debSource, debDelay, debValue, debView,
                   debLastChange, debPrevChange, debFires, debFired>>
    /\ UNCHANGED nonDebVars
DebRunEffect ==
    LET tm == [val |-> debSource, setAt |-> debNow, delay |-> debDelay] IN
    /\ debPhase = "mounted"
    /\ debEffectPending
    /\ debEffectPending' = FALSE
    /\ debTimers' = ClearTimeout(debTimers, debHandler) \cup {tm}
    /\ debHandler' = tm
    /\ UNCHANGED <<debPhase, debNow, debSource, debDelay, debValue, debView,
                   debLastChange, debPrevChange, debFires, debFired>>
    /\ UNCHANGED nonDebVars

\* a timeout fires, at or after its due time: setDebouncedValue(value)
DebFire(tm) ==
    /\ tm \in debTimers
    /\ debNow >= Due(tm)
    /\ debTimers' = debTimers \ {tm}
    /\ debValue' = tm.val
    /\ debFires' = debFires + 1
    /\ debFired' = tm
    /\ UNCHANGED <<debPhase, debNow, debSource, debDelay, debView, debEffectPending,
                   debHandler, debLastChange, debPrevChange>>
    /\ UNCHANGED nonDebVars

\* the owning component is removed: the latest run's cleanup
DebUnmount ==
    /\ debPhase = "mounted"
    /\ ~debEffectPending
    /\ debPhase' = "unmounted"
    /\ debTimers' = ClearTimeout(debTimers, debHandler)
    /\ UNCHANGED <<debNow, debSource, debDelay, debValue, debView, debEffectPending,
                   debHandler, debLastChange, debPrevChange, debFires, debFired>>
    /\ UNCHANGED nonDebVars

\* time passes; React runs a scheduled effect before it does
DebTick ==
    /\ debNow < MaxTime
    /\ ~debEffectPending
    /\ debNow' = debNow + 1
    /\ UNCHANGED <<debPhase, debSource, debDelay, debValue, debView, debEffectPending,
                   debTimers, debHandler, debLastChange, debPrevChange, debFires, debFired>>
    /\ UNCHANGED nonDebVars

DebInit ==
    /\ debPhase = "init"
    /\ debNow = 0
    /\ debSource = ""
    /\ debDelay = 1
    /\ debValue = ""
    /\ debView = ""
    /\ debEffectPending = FALSE
    /\ debTimers = {}
    /\ debHandler = NoTimer
    /\ debLastChange = 0
    /\ debPrevChange = 0
    /\ debFires = 0
    /\ debFired = NoTimer

DebNext ==
    \/ \E v \in DebValues, d \in Delays : DebMount(v, d)
    \/ \E v \in DebValues, d \in Delays : DebRender(v, d)
    \/ DebRunEffect
    \/ \E tm \in debTimers : DebFire(tm)
    \/ DebUnmount
    \/ DebTick

(***************************************************************************)
(* usePrevious                                                             *)
(***************************************************************************)
PrevValues == {"a", "b", "c"}

\* useEffect(() => { ref.current = value; }) has no dependency list: it is
\* scheduled by every render
PrevEffectScheduled_MountOnly(first) == first
PrevEffectScheduled(first) == TRUE

\* first render: useRef() holds undefined, and that is returned
PrevMount(value) ==
    /\ prevPhase = "init"
    /\ prevPhase' = "mounted"
    /\ prevArg' = value
    /\ prevReturned' = prevRef
    /\ prevEffectPending' = PrevEffectScheduled(TRUE)
    /\ prevRenders' = 1
    /\ UNCHANGED <<prevRef, prevBefore>>
    /\ UNCHANGED nonPrevVars

\* a later render with the argument value: return ref.current
PrevRender(value) ==
    /\ prevPhase = "mounted"
    /\ ~prevEffectPending
    /\ prevRenders < MaxPrevRenders
    /\ prevArg' = value
    /\ prevBefore' = prevArg
    /\ prevReturned' = prevRef
    /\ prevEffectPending' = PrevEffectScheduled(FALSE)
    /\ prevRenders' = prevRenders + 1
    /\ UNCHANGED <<prevPhase, prevRef>>
    /\ UNCHANGED nonPrevVars

\* the effect: ref.current = value
PrevRunEffect ==
    /\ prevPhase = "mounted"
    /\ prevEffectPending
    /\ prevEffectPending' = FALSE
    /\ prevRef' = prevArg
    /\ UNCHANGED <<prevPhase, prevArg, prevReturned, prevRenders, prevBefore>>
    /\ UNCHANGED nonPrevVars

PrevUnmount ==
    /\ prevPhase = "mounted"
    /\ ~prevEffectPending
    /\ prevPhase' = "unmounted"
    /\ UNCHANGED <<prevRef, prevArg, prevReturned, prevEffectPending,
                   prevRenders, prevBefore>>
    /\ UNCHANGED nonPrevVars

PrevInit ==
    /\ prevPhase = "init"
    /\ prevRef = Undefined
    /\ prevArg = Undefined
    /\ prevReturned = Undefined
    /\ prevEffectPending = FALSE
    /\ prevRenders = 0
    /\ prevBefore = Undefined

PrevNext ==
    \/ \E v \in PrevValues : PrevMount(v)
    \/ \E v \in PrevValues : PrevRender(v)
    \/ PrevRunEffect
    \/ PrevUnmount

(***************************************************************************)
(* useWindowSize                                                           *)
(***************************************************************************)
Lengths == {1, 2}                  \* widths and heights of the window
WindowSizes == [width : Lengths, height : Lengths]

\* useEffect(..., []) is scheduled by the first render only
WsEffectScheduled(first) == first

\* window.addEventListener('resize', h) / window.removeEventListener('resize', h)
AddEventListener(listeners, h) == listeners \cup {h}
RemoveEventListener_Missing(listeners, h) == listeners
RemoveEventListener(listeners, h) == listeners \ {h}

\* handleResize: setWindowSize({ width: innerWidth, height: innerHeight })
HandleResize(size, env) == env

\* first render: useState({ width: innerWidth, height: innerHeight })
WsMount ==
    /\ wsPhase = "init"
    /\ wsPhase' = "mounted"
    /\ wsSize' = wsEnv
    /\ wsView' = wsEnv
    /\ wsEffectPending' = WsEffectScheduled(TRUE)
    /\ UNCHANGED <<wsEnv, wsListeners, wsHandler, wsRuns, wsNotify, wsAdded, wsRemoved>>
    /\ UNCHANGED nonWsVars

\* a later render returns the cell
WsRender ==
    /\ wsPhase = "mounted"
    /\ ~wsEffectPending
    /\ wsView' = wsSize
    /\ wsEffectPending' = WsEffectScheduled(FALSE)
    /\ UNCHANGED <<wsPhase, wsEnv, wsSize, wsListeners, wsHandler, wsRuns, wsNotify,
                   wsAdded, wsRemoved>>
    /\ UNCHANGED nonWsVars

\* the effect body: a new handleResize is registered
WsRunEffect ==
    LET h == wsRuns + 1 IN
    /\ wsPhase = "mounted"
    /\ wsEffectPending
    /\ wsEffectPending' = FALSE
    /\ wsRuns' = h
    /\ wsHandler' = h
    /\ wsListeners' = AddEventListener(wsListeners, h)
    /\ wsAdded' = wsAdded \cup {h}
    /\ UNCHANGED <<wsPhase, wsEnv, wsSize, wsView, wsNotify, wsRemoved>>
    /\ UNCHANGED nonWsVars

\* the user resizes the window: the size changes and a resize event is queued
WsEnvResize(sz) ==
    /\ sz # wsEnv
    /\ wsEnv' = sz
    /\ wsNotify' = TRUE
    /\ UNCHANGED <<wsPhase, wsSize, wsView, wsEffectPending, wsListeners, wsHandler,
                   wsRuns, wsAdded, wsRemoved>>
    /\ UNCHANGED nonWsVars

\* the queued resize event is dispatched to the registered handlers
WsDispatch ==
    /\ wsNotify
    /\ wsNotify' = FALSE
    /\ wsSize' = IF wsListeners # {} THEN HandleResize(wsSize, wsEnv) ELSE wsSize
    /\ UNCHANGED <<wsPhase, wsEnv, wsView, wsEffectPending, wsListeners, wsHandler,
                   wsRuns, wsAdded, wsRemoved>>
    /\ UNCHANGED nonWsVars

\* teardown: the cleanup of the effect run
WsUnmount ==
    /\ wsPhase = "mounted"
    /\ ~wsEffectPending
    /\ wsPhase' = "unmounted"
    /\ wsListeners' = RemoveEventListener(wsListeners, wsHandler)
    /\ wsRemoved' = wsRemoved \cup {wsHandler}
    /\ UNCHANGED <<wsEnv, wsSize, wsView, wsEffectPending, wsHandler, wsRuns,
                   wsNotify, wsAdded>>
    /\ UNCHANGED nonWsVars

WsInit ==
    /\ wsPhase = "init"
    /\ wsEnv = [width |-> 1, height |-> 1]
    /\ wsSize = [width |-> 1, height |-> 1]
    /\ wsView = [width |-> 1, height |-> 1]
    /\ wsEffectPending = FALSE
    /\ wsListeners = {}
    /\ wsHandler = 0
    /\ wsRuns = 0
    /\ wsNotify = FALSE
    /\ wsAdded = {}
    /\ wsRemoved = {}

WindowNext ==
    \/ WsMount
    \/ WsRender
    \/ WsRunEffect
    \/ \E sz \in WindowSizes : WsEnvResize(sz)
    \/ WsDispatch
    \/ WsUnmount

(***************************************************************************)
(* TimerComponent                                                          *)
(***************************************************************************)
\* clearTimeout(id)
TcClearTimeout_Missing(timeouts, id) == timeouts
TcClearTimeout(timeouts, id) == {t \in timeouts : t.id # id}

\* prevState => ({ count: prevState.count + 1 })
TcCountUpdater(count) == count + 1

\* the parent shows the component: constructor, then componentDidMount
\* calls startTimer
TcMount ==
    /\ ~tcMounted
    /\ tcNextId <= MaxTimeouts
    /\ tcMounted' = TRUE
    /\ tcInstance' = tcInstance + 1
    /\ tcCount' = 0
    /\ tcTimerId' = tcNextId
    /\ tcTimeouts' = tcTimeouts \cup {[id |-> tcNextId, inst |-> tcInstance + 1]}
    /\ tcNextId' = tcNextId + 1
    /\ UNCHANGED <<tcFires, tcLateWrites>>
    /\ UNCHANGED nonTcVars

\* a pending timeout fires: setState(count + 1), then startTimer again
TcFire(tm) ==
    LET live == tcMounted /\ tm.inst = tcInstance IN
    /\ tm \in tcTimeouts
    /\ tcNextId <= MaxTimeouts
    /\ tcFires' = tcFires + 1
    /\ tcCount' = IF live THEN TcCountUpdater(tcCount) ELSE tcCount
    /\ tcLateWrites' = IF live THEN tcLateWrites ELSE tcLateWrites + 1
    /\ tcTimeouts' = (tcTimeouts \ {tm}) \cup {[id |-> tcNextId, inst |-> tm.inst]}
    /\ tcTimerId' = IF tm.inst = tcInstance THEN tcNextId ELSE tcTimerId
    /\ tcNextId' = tcNextId + 1
    /\ UNCHANGED <<tcMounted, tcInstance>>
    /\ UNCHANGED nonTcVars

\* the parent hides the component: componentWillUnmount
TcUnmount ==
    /\ tcMounted
    /\ tcMounted' = FALSE
    /\ tcTimeouts' = IF tcTimerId # 0 THEN TcClearTimeout(tcTimeouts, tcTimerId)
                                       ELSE tcTimeouts
    /\ tcTimerId' = 0
    /\ UNCHANGED <<tcInstance, tcCount, tcNextId, tcFires, tcLateWrites>>
    /\ UNCHANGED nonTcVars

TcInit ==
    /\ tcMounted = FALSE
    /\ tcInstance = 0
    /\ tcCount = 0
    /\ tcTimerId = 0
    /\ tcTimeouts = {}
    /\ tcNextId = 1
    /\ tcFires = 0
    /\ tcLateWrites = 0

TimerNext ==
    \/ TcMount
    \/ \E tm \in tcTimeouts : TcFire(tm)
    \/ TcUnmount

(***************************************************************************)
(* UseEffectDemo                                                           *)
(***************************************************************************)
\* addLog: setLogs(prevLogs => [...prevLogs, message]); always a new array
AddLog(logs) == IF logs < MaxLogs THEN logs + 1 ELSE MaxLogs

\* clearInterval(id)
ClearInterval_Missing(intervals, id) == intervals
ClearInterval(intervals, id) == intervals \ {id}

\* the cleanup of the timer effect: if (intervalId) clearInterval(intervalId)
TimerCleanup(intervals, intervalId) ==
    IF intervalId # 0 THEN ClearInterval(intervals, intervalId) ELSE intervals

\* first render
UeMount ==
    /\ uePhase = "init"
    /\ uePhase' = "mounted"
    /\ ueRunningView' = ueRunning
    /\ ueEffectsPending' = TRUE
    /\ ueTimerEffectPending' = TRUE
    /\ UNCHANGED <<ueRunning, ueTimer, ueIntervals, ueIntervalId, ueNextId,
                   ueRenderPending, ueLogs, ueFetch, ueAsync, ueInputs>>
    /\ UNCHANGED nonUeVars

\* a render that a state write has scheduled; the effect without a
\* dependency list is scheduled again, the timer effect iff isTimerRunning
\* differs from the render before
UeRender ==
    /\ uePhase = "mounted"
    /\ ~ueEffectsPending
    /\ ueRenderPending
    /\ ueRenderPending' = FALSE
    /\ ueRunningView' = ueRunning
    /\ ueEffectsPending' = TRUE
    /\ ueTimerEffectPending' = (ueRunning # ueRunningView)
    /\ UNCHANGED <<uePhase, ueRunning, ueTimer, ueIntervals, ueIntervalId, ueNextId,
                   ueLogs, ueFetch, ueAsync, ueInputs>>
    /\ UNCHANGED nonUeVars

\* the effects of the last render, in order: the one without dependency
\* list calls addLog; after the first render the mount effects start the
\* fetch and the async effect; the timer effect runs its previous cleanup
\* and then its body
UeRunEffects ==
    LET first == ueFetch = "idle"
        cleared == TimerCleanup(ueIntervals, ueIntervalId)
        starts == ueTimerEffectPending /\ ueRunningView
    IN
    /\ uePhase = "mounted"
    /\ ueEffectsPending
    /\ ueEffectsPending' = FALSE
    /\ ueTimerEffectPending' = FALSE
    /\ ueLogs' = AddLog(ueLogs)
    /\ ueRenderPending' = TRUE
    /\ ueFetch' = IF first THEN "inflight" ELSE ueFetch
    /\ ueAsync' = IF first THEN "waiting" ELSE ueAsync
    /\ ueIntervals' = IF ~ueTimerEffectPending THEN ueIntervals
                       ELSE IF starts THEN cleared \cup {ueNextId} ELSE cleared
    /\ ueIntervalId' = IF ~ueTimerEffectPending THEN ueIntervalId
                        ELSE IF starts THEN ueNextId ELSE 0
    /\ ueNextId' = IF starts THEN ueNextId + 1 ELSE ueNextId
    /\ UNCHANGED <<uePhase, ueRunning, ueRunningView, ueTimer, ueInputs>>
    /\ UNCHANGED nonUeVars

\* setIsTimerRunning(prev => !prev)
toggleTimer ==
    /\ uePhase = "mounted"
    /\ ueInputs < MaxUeInputs
    /\ ueInputs' = ueInputs + 1
    /\ ueRunning' = ~ueRunning
    /\ ueRenderPending' = TRUE
    /\ UNCHANGED <<uePhase, ueRunningView, ueTimer, ueIntervals, ueIntervalId, ueNextId,
                   ueEffectsPending, ueTimerEffectPending, ueLogs, ueFetch, ueAsync>>
    /\ UNCHANGED nonUeVars

\* setTimer(0); setIsTimerRunning(false)
resetTimer ==
    /\ uePhase = "mounted"
    /\ ueInputs < MaxUeInputs
    /\ ueInputs' = ueInputs + 1
    /\ ueTimer' = 0
    /\ ueRunning' = FALSE
    /\ ueRenderPending' = (ueRenderPending \/ ueTimer # 0 \/ ueRunning)
    /\ UNCHANGED <<uePhase, ueRunningView, ueIntervals, ueIntervalId, ueNextId,
                   ueEffectsPending, ueTimerEffectPending, ueLogs, ueFetch, ueAsync>>
    /\ UNCHANGED nonUeVars

\* an active interval ticks: setTimer(prevTimer => prevTimer + 1), addLog
UeIntervalTick(id) ==
    /\ id \in ueIntervals
    /\ ueTimer < MaxUeTimer
    /\ ueTimer' = ueTimer + 1
    /\ ueLogs' = AddLog(ueLogs)
    /\ ueRenderPending' = TRUE
    /\ UNCHANGED <<uePhase, ueRunning, ueRunningView, ueIntervals, ueIntervalId,
                   ueNextId, ueEffectsPending, ueTimerEffectPending, ueFetch, ueAsync,
                   ueInputs>>
    /\ UNCHANGED nonUeVars

\* the mount fetch settles: setData / addLog / setLoading(false)
UeFetchSettle ==
    /\ uePhase = "mounted"
    /\ ueFetch = "inflight"
    /\ ueFetch' = "done"
    /\ ueLogs' = AddLog(ueLogs)
    /\ ueRenderPending' = TRUE
    /\ UNCHANGED <<uePhase, ueRunning, ueRunningView, ueTimer, ueIntervals,
                   ueIntervalId, ueNextId, ueEffectsPending, ueTimerEffectPending,
                   ueAsync, ueInputs>>
    /\ UNCHANGED nonUeVars

\* the async effect's 1-second wait ends: addLog
UeAsyncDone ==
    /\ uePhase = "mounted"
    /\ ueAsync = "waiting"
    /\ ueAsync' = "done"
    /\ ueLogs' = AddLog(ueLogs)
    /\ ueRenderPending' = TRUE
    /\ UNCHANGED <<uePhase, ueRunning, ueRunningView, ueTimer, ueIntervals,
                   ueIntervalId, ueNextId, ueEffectsPending, ueTimerEffectPending,
                   ueFetch, ueInputs>>
    /\ UNCHANGED nonUeVars

\* teardown: the cleanups of the latest effect runs
UeUnmount ==
    /\ uePhase = "mounted"
    /\ ~ueEffectsPending
    /\ uePhase' = "unmounted"
    /\ ueIntervals' = TimerCleanup(ueIntervals, ueIntervalId)
    /\ ueRenderPending' = FALSE
    /\ UNCHANGED <<ueRunning, ueRunningView, ueTimer, ueIntervalId, ueNextId,
                   ueEffectsPending, ueTimerEffectPending, ueLogs, ueFetch, ueAsync,
                   ueInputs>>
    /\ UNCHANGED nonUeVars

UeInit ==
    /\ uePhase = "init"
    /\ ueRunning = FALSE
    /\ ueRunningView = FALSE
    /\ ueTimer = 0
    /\ ueIntervals = {}
    /\ ueIntervalId = 0
    /\ ueNextId = 1
    /\ ueEffectsPending = FALSE
    /\ ueTimerEffectPending = FALSE
    /\ ueRenderPending = FALSE
    /\ ueLogs = 0
    /\ ueFetch = "idle"
    /\ ueAsync = "idle"
    /\ ueInputs = 0

EffectNext ==
    \/ UeMount
    \/ UeRender
    \/ UeRunEffects
    \/ toggleTimer
    \/ resetTimer
    \/ \E id \in ueIntervals : UeIntervalTick(id)
    \/ UeFetchSettle
    \/ UeAsyncDone
    \/ UeUnmount

vars == <<apiVars, formVars, togVars, cntVars, advVars, lsVars, debVars, prevVars, wsVars, tcVars, ueVars>>

Init ==
    ApiInit /\ FormInit /\ TogInit /\ CntInit /\ AdvInit /\ LsInit /\ DebInit /\ PrevInit /\ WsInit /\ TcInit /\ UeInit

SpecApi == Init /\ [][ApiNext]_vars

\* the network settles every request; React flushes scheduled effects
SpecApiLive == SpecApi /\ WF_vars(ApiComplete) /\ WF_vars(ApiRunEffect)

SpecForm == Init /\ [][FormNext]_vars

SpecToggle == Init /\ [][TogNext]_vars

\* useCounter and the class component: batches of state writes
SpecBatch == Init /\ [][BatchNext]_vars

SpecStorage == Init /\ [][LsNext]_vars

SpecDebounce == Init /\ [][DebNext]_vars

\* a timeout that is due fires
DebFireDue == \E tm \in debTimers : DebFire(tm)

\* React flushes scheduled effects, time passes, due timeouts fire
SpecDebounceLive ==
    SpecDebounce /\ WF_vars(DebRunEffect) /\ WF_vars(DebTick) /\ WF_vars(DebFireDue)

SpecPrevious == Init /\ [][PrevNext]_vars

SpecWindow == Init /\ [][WindowNext]_vars

SpecTimer == Init /\ [][TimerNext]_vars

SpecEffect == Init /\ [][EffectNext]_vars

\* React renders and flushes effects; the fetch and the 1-second wait end
SpecEffectLive ==
    SpecEffect /\ WF_vars(UeMount) /\ WF_vars(UeRender) /\ WF_vars(UeRunEffects)
               /\ WF_vars(UeFetchSettle) /\ WF_vars(UeAsyncDone)

(***************************************************************************)
(* Properties of useApi                                                    *)
(***************************************************************************)
InFlight(r) == apiReqs[r].pc \in {"fetch", "json"}
Done(r) == apiReqs[r].pc = "done"
\* this step is the completion (success or failure) of call r
Completes(r) == InFlight(r) /\ apiReqs'[r].pc = "done"
Succeeds(r) == Completes(r) /\ apiReqs'[r].out.kind = "ok"
Fails(r) == Completes(r) /\ apiReqs'[r].out.kind = "err"
LastStartedFailed == apiStarted > 0 /\ apiReqs[apiStarted].out.kind = "err"

\* C1: when a fetch R1 completes after a fetch R2 that was started later
\* (while R1 was in flight) has already completed, R1's completion leaves
\* the data and error produced by R2 in place.
C1_StaleCompletionKeepsNewerResult ==
    [][\A r1 \in ReqIds :
          (Completes(r1) /\ \E r2 \in ReqIds : r2 > r1 /\ Done(r2))
              => /\ apiState'.data = apiState.data
                 /\ apiState'.error = apiState.error]_vars

\* C2: while the most recently started fetch is in flight, the completion of
\* an older fetch leaves data, error and loading unchanged.
C2_OnlyNewestCompletionApplied ==
    [][\A r \in ReqIds :
          (Completes(r) /\ r < apiStarted /\ InFlight(apiStarted))
              => apiState' = apiState]_vars

\* C3: starting a fetch sets loading, clears error and keeps data.
C3_StartKeepsStaleData ==
    [][apiStarted' = apiStarted + 1
          => /\ apiState'.loading = TRUE
             /\ apiState'.error = Null
             /\ apiState'.data = apiState.data]_vars

\* a fetch is in progress while the data of an earlier one is still held
C3_Witness ==
    /\ apiStarted >= 2
    /\ InFlight(apiStarted)
    /\ apiState.loading
    /\ apiState.data # Null
    /\ \E r \in ReqIds : r < apiStarted /\ apiReqs[r].out.kind = "err"

\* C4: right after the successful completion of the most recently started
\* fetch, data is its result, loading is false and error is absent.
C4_SuccessClearsError ==
    [][\A r \in ReqIds :
          (Succeeds(r) /\ r = apiStarted)
              => /\ apiState'.data = apiReqs'[r].out.val
                 /\ apiState'.loading = FALSE
                 /\ apiState'.error = Null]_vars

\* C5: a failing fetch (rejection, non-OK status, unparsable body) settles
\* its promise without throwing, sets error, clears loading and keeps data.
C5_FailureIsState ==
    [][\A r \in ReqIds :
          Fails(r)
              => /\ apiReqs'[r].promise = "fulfilled"
                 /\ apiState'.error # Null
                 /\ apiState'.loading = FALSE
                 /\ apiState'.data = apiState.data]_vars

\* a fetch has failed after an earlier one delivered data, which is still held
C5_Witness ==
    /\ LastStartedFailed
    /\ apiState.error # Null
    /\ apiState.data # Null
    /\ ~apiState.loading

\* C6: once the owning component is torn down, no step writes data, error
\* or loading.
C6_NoWriteAfterTeardown ==
    [][apiPhase = "unmounted" => apiState' = apiState]_vars

\* C7: every state with loading = true is followed by one with loading =
\* false in which error is populated if the last started fetch has failed.
C7_NeverHangs ==
    (apiState.loading = TRUE)
        ~> (apiState.loading = FALSE /\ (LastStartedFailed => apiState.error # Null))

\* the last started fetch has failed and that is what the state shows
C7_Witness ==
    /\ LastStartedFailed
    /\ apiState.loading = FALSE
    /\ apiState.error # Null
    /\ apiStarted >= 2

\* C8: the number of fetches started is the number of triggers (first
\* mount, each render with a changed url, each refetch()), counting a
\* scheduled effect that has not run yet; other renders start none.
C8_FetchPerTrigger ==
    apiStarted + (IF apiEffectPending THEN 1 ELSE 0) = apiTriggers

\* several triggers have been served and a later render has shown a result
C8_Witness ==
    /\ apiStarted >= 2
    /\ apiTriggers >= 2
    /\ ~apiEffectPending
    /\ apiView.data # Null

(***************************************************************************)
(* Properties of useForm                                                   *)
(***************************************************************************)
\* this step is a call of the named operation
FormCallStep(op) == formCalls' = formCalls + 1 /\ formLastCall'.op = op

\* C9: when the two latest calls are setError(f, m) and then setValue(f, v),
\* with or without a render between them, errors[f] is absent and
\* values[f] is v.
C9_SetValueClearsError ==
    (/\ formLastCall.op = "setValue"
     /\ formPrevCall.op = "setError"
     /\ formPrevCall.field = formLastCall.field)
        => /\ formErrors[formLastCall.field] = Undefined
           /\ formValues[formLastCall.field] = formLastCall.arg

\* C10: setError changes no value and no other field's error; setValue makes
\* no error present and changes no other field's value; an error becomes
\* present only in a setError call on that field.
C10_FormFrame ==
    [][/\ FormCallStep("setError")
           => /\ formValues' = formValues
              /\ \A g \in Fields \ {formLastCall'.field} : formErrors'[g] = formErrors[g]
       /\ FormCallStep("setValue")
           => /\ \A g \in Fields : formErrors[g] = Undefined => formErrors'[g] = Undefined
              /\ \A g \in Fields \ {formLastCall'.field} : formValues'[g] = formValues[g]
       /\ \A g \in Fields :
              (formErrors[g] = Undefined /\ formErrors'[g] # Undefined)
                  => FormCallStep("setError") /\ formLastCall'.field = g]_vars

\* setError on one field, then setValue on the other: both effects are held
C10_Witness ==
    /\ formPrevCall.op = "setError"
    /\ formLastCall.op = "setValue"
    /\ formPrevCall.field # formLastCall.field
    /\ formErrors[formPrevCall.field] = "x"
    /\ formValues[formLastCall.field] = "a@b.com"
    /\ formValues[formPrevCall.field] = ""

\* C11: after reset(), whatever calls and renders came before, values is the
\* mapping the form was created with and every errors entry is absent.
C11_ResetRestoresOriginal ==
    formLastCall.op = "reset"
        => /\ formValues = FormCreationValues
           /\ formErrors = NoErrors

(***************************************************************************)
(* Properties of useToggle, useCounter and AdvancedSetStateDemo            *)
(***************************************************************************)
\* C12: after n toggle() calls since creation (or since the latest setTrue
\* or setFalse, which set true / false whatever came before) the value is
\* the starting value if n is even and its negation if n is odd.
C12_ToggleParity ==
    togPhase = "mounted"
        => togValue = (IF togCount % 2 = 0 THEN togBase ELSE ~togBase)

\* three toggle() calls in one batch, starting from false
C12_Witness ==
    /\ togPhase = "mounted"
    /\ togBase = FALSE
    /\ togCount = 3
    /\ togCalls = 3
    /\ togView = FALSE
    /\ togValue = TRUE

\* C13: within a batch count is start + k - m after k increment and m
\* decrement calls, where a reset in the batch restarts from initialValue;
\* one correctWay call raises the pending counter by exactly 3.
C13_UpdatersCompose ==
    [][/\ cntPhase' = "mounted" => cntValue' = cntBase' + cntK' - cntM'
       /\ (advCalls' = advCalls + 1 /\ advLastCall' = "correctWay")
              => /\ advPending'.counter = advPending.counter + 3
                 /\ advPending'.message = CorrectWayMessage]_vars

\* increments and a decrement in one batch, and two correctWay calls in one
C13_Witness ==
    /\ cntPhase = "mounted"
    /\ cntK = 2
    /\ cntM = 1
    /\ cntValue = cntView + 1
    /\ advLastCall = "correctWay"
    /\ advPending.counter = 6
    /\ advState.counter = 0

(***************************************************************************)
(* Properties of useLocalStorage                                           *)
(***************************************************************************)
\* the instance is mounted and has not written yet
LsFresh == lsPhase = "mounted" /\ lsWrites = 0

\* C14: after setValue calls in one batch, with the store accepting them,
\* the in-memory value and the stored value are the left fold of the
\* batch's writes over the value at the start of the batch.
C14_UpdatersSeePreviousWrite ==
    (lsPhase = "mounted" /\ lsWrites > 0 /\ lsLastWrite.stored /\ ~lsExternal)
        => /\ lsValue = lsFold
           /\ lsStore = Item(Stringify(lsFold))

\* C15 as stated: a fresh instance created after a write of v, with no other
\* writer in between, starts with the value v.
C15_RoundTrip ==
    (LsFresh /\ lsLastWrite.kind # "none" /\ ~lsExternal)
        => lsValue = lsLastWrite.v

\* C15 as amended: the same, provided setItem did not throw in that write
\* and getItem did not throw when the fresh instance was created.
C15_RoundTripWhenStored ==
    (LsFresh /\ lsLastWrite.kind # "none" /\ ~lsExternal
       /\ lsLastWrite.stored /\ ~lsGetThrew)
        => lsValue = lsLastWrite.v

\* a fresh instance that was given another initialValue has read back a falsy value
C15_Witness ==
    /\ LsFresh
    /\ lsLastWrite.stored
    /\ ~lsExternal
    /\ ~lsGetThrew
    /\ lsLastWrite.v \in {JZero, JFalse, JNull, JStr("")}
    /\ lsInitial # lsLastWrite.v
    /\ lsValue = lsLastWrite.v

\* C16: when the read at creation fails (key missing, getItem throws, text
\* does not parse) nothing is raised and the value is the initialValue.
C16_ReadFailureGivesInitial ==
    (LsFresh /\ lsReadFailed) => (lsValue = lsInitial /\ ~lsRaised)

\* an instance created over a text that is not JSON
C16_Witness ==
    /\ LsFresh
    /\ lsReadFailed
    /\ ~lsGetThrew
    /\ lsStore = Item("{oops")
    /\ lsInitial = JStr("a")
    /\ lsValue = JStr("a")

\* C17: a setValue call in which setItem throws raises nothing, makes the
\* in-memory value the new value and leaves the stored value as it was.
C17_WriteFailureKeepsMemory ==
    [][(lsWrites' = lsWrites + 1 /\ ~lsLastWrite'.stored)
          => /\ lsValue' = lsLastWrite'.v
             /\ lsStore' = lsStore
             /\ ~lsRaised']_vars

\* the store still holds an older value than the one in memory
C17_Witness ==
    /\ lsPhase = "mounted"
    /\ lsLastWrite.kind # "none"
    /\ ~lsLastWrite.stored
    /\ lsValue = lsLastWrite.v
    /\ lsStore.present
    /\ lsStore # Item(Stringify(lsValue))
    /\ ~lsExternal

\* C18: once the instance has written and its latest write was stored, with
\* no other writer since, the stored text is the serialisation of the
\* in-memory value.
C18_StoreMirrorsValue ==
    (lsPhase = "mounted" /\ lsWrites > 0 /\ lsLastWrite.stored /\ ~lsExternal)
        => lsStore = Item(Stringify(lsValue))

\* several writes, the latest with an updater, applied and rendered
C18_Witness ==
    /\ lsPhase = "mounted"
    /\ lsWrites >= 2
    /\ lsRenders >= 1
    /\ lsLastWrite.kind = "updater"
    /\ lsLastWrite.stored
    /\ ~lsExternal
    /\ lsView = lsValue
    /\ lsStore = Item(Stringify(lsValue))

\* C19: an instance calls getItem once, at creation, and a re-render leaves
\* the in-memory value as it is.
C19_ReadOnceAtCreation ==
    [][/\ lsPhase' = "mounted" => lsReads' = 1
       /\ lsRenders' = lsRenders + 1 => lsValue' = lsValue]_vars

\* re-rendered while the store holds something else than the memory
C19_Witness ==
    /\ lsPhase = "mounted"
    /\ lsRenders = 2
    /\ lsReads = 1
    /\ lsExternal
    /\ lsStore # Item(Stringify(lsValue))

C21_AtMostOneTimer ==
    /\ [](Cardinality(debTimers) <= 1)
    /\ [](debPhase = "unmounted" => debTimers = {})
    /\ [][debPhase = "unmounted"
            => debValue' = debValue /\ debFires' = debFires]_vars

\* torn down while the timeout of a changed value was pending: it was
\* cancelled and its value never came out
C21_Witness ==
    /\ debPhase = "unmounted"
    /\ debFires = 0
    /\ debHandler # NoTimer
    /\ debHandler.val # debValue
    /\ debNow >= Due(debHandler)
    /\ debTimers = {}

\* C22: once the source value stops changing on a mounted instance the
\* debounced value eventually equals it; and until the first timeout fires
\* the debounced value is the source value of the first render.
C22_TracksSource ==
    /\ \A v \in DebValues :
           [](([](debPhase = "mounted" /\ debSource = v)) => <>(debValue = v))
    /\ [][debPhase = "init" /\ debPhase' = "mounted" => debValue' = debSource']_vars
    /\ [][debPhase # "init" /\ debValue' # debValue => debFires' = debFires + 1]_vars

\* C22 with the delay argument at rest too: once the source value and the
\* delay stop changing on a mounted instance the debounced value eventually
\* equals the source value; until the first timeout fires the debounced
\* value is the source value of the first render.
C22_TracksSourceAtStableDelay ==
    /\ \A v \in DebValues : \A d \in Delays :
           []( ([](debPhase = "mounted" /\ debSource = v /\ debDelay = d))
                  => <>(debValue = v) )
    /\ [][debPhase = "init" /\ debPhase' = "mounted" => debValue' = debSource']_vars
    /\ [][debPhase # "init" /\ debValue' # debValue => debFires' = debFires + 1]_vars

\* the last render still returned another value than its source argument,
\* and the one timeout that fired since has brought the source value out
C22_Witness ==
    /\ debPhase = "mounted"
    /\ debFires = 1
    /\ debView # debSource
    /\ debFired.val = debSource
    /\ debValue = debSource
    /\ debTimers = {}

(***************************************************************************)
(* Further properties of useApi                                            *)
(***************************************************************************)
\* C29: in every reachable state, overlapping calls included, loading is
\* true only while error is absent.
C29_LoadingExcludesError == apiState.loading => apiState.error = Null

\* two calls in flight after an earlier one has failed
C29_Witness ==
    /\ apiState.loading
    /\ apiState.error = Null
    /\ \E r \in ReqIds : Done(r) /\ apiReqs[r].out.kind = "err"
    /\ \E r1, r2 \in ReqIds : r1 # r2 /\ InFlight(r1) /\ InFlight(r2)

(***************************************************************************)
(* Further properties of AdvancedSetStateDemo                              *)
(***************************************************************************)
\* C27: one call of wrongWay queues counter = this.state.counter + 1 (all
\* three writes read the same this.state) together with its message, and
\* the render that follows it raises counter by exactly 1, whatever the
\* counter was.
C27_WrongWayAddsOne ==
    /\ [][advCalls' = advCalls + 1 /\ advLastCall' = "wrongWay"
            => advPending' = [counter |-> advState.counter + 1,
                              message |-> WrongWayMessage]]_vars
    /\ [][advLastCall = "wrongWay" /\ advState' # advState
            => /\ advState'.counter = advState.counter + 1
               /\ advState'.message = WrongWayMessage]_vars

\* wrongWay called at counter 3 and rendered
C27_Witness ==
    /\ advLastCall = "wrongWay"
    /\ advState.message = WrongWayMessage
    /\ advState.counter = 4
    /\ advPending = advState

(***************************************************************************)
(* Properties of usePrevious                                               *)
(***************************************************************************)
\* C23: the first render returns undefined, and every later render returns
\* the value argument of the render before it, whether or not the value
\* changed between the two.
C23_ReturnsPreviousArgument ==
    /\ prevRenders = 1 => prevReturned = Undefined
    /\ prevRenders >= 2 => prevReturned = prevBefore

\* a third render with the same argument as the second
C23_Witness ==
    /\ prevRenders = 3
    /\ prevArg = prevBefore
    /\ prevReturned = prevBefore
    /\ prevEffectPending

C25_ReturnsCurrentSize ==
    /\ [][wsPhase = "init" /\ wsPhase' = "mounted" => wsView' = wsEnv]_vars
    /\ []((wsPhase = "mounted" /\ ~wsNotify /\ ~wsEffectPending /\ wsView = wsSize)
             => wsView = wsEnv)

(***************************************************************************)
(* Properties of TimerComponent                                            *)
(***************************************************************************)
\* C28: a mounted instance has exactly one pending timeout, the one held
\* in this.timerId; each firing raises count by exactly 1 and leaves one
\* newly scheduled timeout; after componentWillUnmount no timeout is
\* pending, none fires, and count is not written again.
C28_OneSelfReschedulingTimeout ==
    /\ [](tcMounted => tcTimeouts = {[id |-> tcTimerId, inst |-> tcInstance]})
    /\ [](~tcMounted => tcTimeouts = {})
    /\ [][tcFires' = tcFires + 1
            => /\ tcCount' = tcCount + 1
               /\ Cardinality(tcTimeouts') = 1
               /\ tcTimeouts' # tcTimeouts]_vars
    /\ [][~tcMounted /\ ~tcMounted'
            => tcCount' = tcCount /\ tcFires' = tcFires
                 /\ tcLateWrites' = tcLateWrites]_vars

\* a second instance, unmounted after two firings
C28_Witness ==
    /\ ~tcMounted
    /\ tcInstance = 2
    /\ tcCount = 2
    /\ tcFires >= 3
    /\ tcTimeouts = {}
    /\ tcLateWrites = 0

(***************************************************************************)
(* Properties of UseEffectDemo                                             *)
(***************************************************************************)
\* C26: at most one interval is active at any time; once the effects of
\* the last render have run, an interval is active iff isTimerRunning is
\* true, and it is the one the latest run of the timer effect created;
\* after unmount no interval is active.
C26_OneIntervalIffRunning ==
    /\ Cardinality(ueIntervals) <= 1
    /\ (uePhase = "mounted" /\ ~ueEffectsPending)
          => /\ (ueIntervals # {}) <=> ueRunningView
             /\ ueRunningView => ueIntervals = {ueIntervalId}
    /\ uePhase = "unmounted" => ueIntervals = {}

\* the timer was started, stopped and started again: the second interval
\* is the only active one and has ticked
C26_Witness ==
    /\ uePhase = "mounted"
    /\ ~ueEffectsPending
    /\ ueRunningView
    /\ ueIntervals = {2}
    /\ ueInputs = 3
    /\ ueTimer > 0

\* C30: with no user input and the component staying mounted, once the
\* mount fetch and the 1-second async effect have completed the component
\* reaches a state with no state write outstanding: no render and no
\* effect scheduled.
C30_Quiesces ==
    (<>[](uePhase = "mounted" /\ ueInputs = 0))
       => <>( /\ uePhase = "mounted"
              /\ ueFetch = "done"
              /\ ueAsync = "done"
              /\ ~ueRenderPending
              /\ ~ueEffectsPending )

====
